---- MODULE Spec2Model ----
(***************************************************************************)
(* Library Management System API (src/main.py, src/models.py,              *)
(* src/database.py): the request handlers over the "books" collection, the *)
(* pydantic models that validate their payloads, and the collection with   *)
(* its unique index on ISBN.                                               *)
(*                                                                         *)
(* Strings are sequences of characters (each character a one-character     *)
(* string), so that strip(), replace(), len() and isdigit() are computed.  *)
(* A payload or a stored document is a function from field names to        *)
(* values, like the Python dict it models; a field that the payload does   *)
(* not set is absent from its DOMAIN.                                      *)
(***************************************************************************)
EXTENDS Integers, Sequences, FiniteSets, TLC

VARIABLES books,    \* the collection: _id -> document
          nextId,   \* the next _id the store assigns
          pc,       \* per request slot: the handler's position
          req,      \* per request slot: the request being served
          loc,      \* per request slot: the handler's local result
          resp,     \* per request slot: the response of the finished request
          alone,    \* per request slot: no other request overlapped this one
          before,   \* per request slot: the collection when the request began
          vIn,      \* validation run: the ISBN string under validation
          vOut      \* validation run: the validator's outcome

vars == <<books, nextId, pc, req, loc, resp, alone, before, vIn, vOut>>

(***************************************************************************)
(* Bounds of the model.                                                    *)
(***************************************************************************)
MaxBooks == 2
NumProcs == 2

Procs == 1..NumProcs

(***************************************************************************)
(* Python values.                                                          *)
(***************************************************************************)
\* None in a string field; no character sequence equals it.
None == <<"None">>
\* None in publication_year.
NoneInt == 0

SuperscriptTwo == "sup2"  \* U+00B2, a non-ASCII character with isdigit() true
AsciiDigits == {"0", "1", "2", "3", "4", "5", "6", "7", "8", "9"}

\* str.isdigit() of one character
IsDigitChar(c) == c \in AsciiDigits \cup {SuperscriptTwo}

\* str.isdigit(): non-empty and every character a digit
isdigit(s) == Len(s) > 0 /\ \A i \in 1..Len(s) : IsDigitChar(s[i])

\* str.upper() of one character of the model's alphabet
upper(c) == CASE c = "x" -> "X"
              [] c = "a" -> "A"
              [] c = "b" -> "B"
              [] OTHER -> c

\* whitespace as str.strip() sees it
IsSpace(c) == c \in {" ", "\t"}

RECURSIVE lstrip(_)
lstrip(s) == IF s = <<>> THEN <<>>
             ELSE IF IsSpace(Head(s)) THEN lstrip(Tail(s)) ELSE s

RECURSIVE rstrip(_)
rstrip(s) == IF s = <<>> THEN <<>>
             ELSE IF IsSpace(s[Len(s)]) THEN rstrip(SubSeq(s, 1, Len(s) - 1)) ELSE s

\* str.strip()
strip(s) == rstrip(lstrip(s))

\* str.replace(c, '')
RECURSIVE remove(_, _)
remove(s, c) == IF s = <<>> THEN <<>>
                ELSE IF Head(s) = c THEN remove(Tail(s), c)
                ELSE <<Head(s)>> \o remove(Tail(s), c)

(***************************************************************************)
(* models.py: field constraints and validators.                            *)
(***************************************************************************)
TitleMaxLen == 200
AuthorMaxLen == 100
IsbnMinLen == 10
IsbnMaxLen == 17
GenreMaxLen == 50
YearMin == 1000
YearMax == 2024

\* Field(..., min_length=lo, max_length=hi) on a str
LengthOK(v, lo, hi) == Len(v) >= lo /\ Len(v) <= hi

\* Field(..., min_length=10, max_length=17) on ISBN, applied to the raw string
\* before the validator runs
IsbnFieldOK(v) == LengthOK(v, IsbnMinLen, IsbnMaxLen)

\* a validator that takes no X as the check character of an ISBN-10
IsbnFormatOK_DigitsOnly(v) ==
    LET isbn == remove(remove(v, "-"), " ")
    IN  (Len(isbn) = 10 \/ Len(isbn) = 13) /\ isdigit(isbn)

\* the body of validate_isbn: TRUE when it returns v, FALSE when it raises
IsbnFormatOK(v) ==
    LET isbn == remove(remove(v, "-"), " ")
    IN  /\ (Len(isbn) = 10 \/ Len(isbn) = 13)
        /\ IF Len(isbn) = 10
           THEN /\ isdigit(SubSeq(isbn, 1, 9))
                /\ (IsDigitChar(isbn[10]) \/ upper(isbn[10]) = "X")
           ELSE isdigit(isbn)

\* BookBase.ISBN: the field constraint, then validate_isbn
BookBase_ISBN_OK(v) == v # None /\ IsbnFieldOK(v) /\ IsbnFormatOK(v)

\* BookUpdate.ISBN: Optional, None passes unvalidated
BookUpdate_ISBN_OK(v) == v = None \/ (IsbnFieldOK(v) /\ IsbnFormatOK(v))

\* validate_isbn returns v itself
validate_isbn(v) == v

\* validate_strings: TRUE when it does not raise
StringOK(v, hi) == LengthOK(v, 1, hi) /\ strip(v) # <<>>

\* a validator that returns the string as given
validate_strings_Untrimmed(v) == v

\* validate_strings returns v.strip() (None is returned as it is)
validate_strings(v) == IF v = None THEN None ELSE strip(v)

YearOK(y) == y >= YearMin /\ y <= YearMax

StrFields == {"title", "author", "genre"}
Fields == {"title", "author", "ISBN", "genre", "publication_year"}

MaxLenOf(f) == CASE f = "title" -> TitleMaxLen
                 [] f = "author" -> AuthorMaxLen
                 [] f = "genre" -> GenreMaxLen

\* one field of BookBase (BookCreate, BookResponse): required, None not allowed
BookBaseFieldOK(f, v) ==
    CASE f \in StrFields -> v # None /\ StringOK(v, MaxLenOf(f))
      [] f = "ISBN" -> BookBase_ISBN_OK(v)
      [] f = "publication_year" -> v # NoneInt /\ YearOK(v)

\* one field of BookUpdate: Optional, None passes unvalidated
BookUpdateFieldOK(f, v) ==
    CASE f \in StrFields -> v = None \/ StringOK(v, MaxLenOf(f))
      [] f = "ISBN" -> BookUpdate_ISBN_OK(v)
      [] f = "publication_year" -> v = NoneInt \/ YearOK(v)

\* the value a validated field takes
Normalize(f, v) == IF f \in StrFields THEN validate_strings(v)
                   ELSE IF f = "ISBN" THEN validate_isbn(v) ELSE v

\* BookCreate(**payload) / BookResponse(**doc) does not raise
BookBaseOK(d) == /\ Fields \subseteq DOMAIN d
                 /\ \A f \in Fields : BookBaseFieldOK(f, d[f])

\* BookUpdate(**payload) does not raise
BookUpdateOK(d) == \A f \in DOMAIN d : BookUpdateFieldOK(f, d[f])

\* book.dict() / book_update.dict(exclude_unset=True)
dict(d) == [f \in DOMAIN d \cap Fields |-> Normalize(f, d[f])]

(***************************************************************************)
(* Identifiers: the store's ObjectId n and its public string form.         *)
(***************************************************************************)
\* str(ObjectId)
str(n) == <<"oid", n>>

\* a string that is no ObjectId
MalformedId == <<"bad", 0>>

\* ObjectId.is_valid(s)
is_valid(s) == s[1] = "oid"

\* ObjectId(s)
ObjectId(s) == s[2]

(***************************************************************************)
(* database.py and the store: the books collection with its indexes.       *)
(***************************************************************************)
\* a lookup that compares ISBNs with their hyphens and spaces taken out
FindByISBN_Normalized(bks, isbn) ==
    {i \in DOMAIN bks :
        remove(remove(bks[i]["ISBN"], "-"), " ") = remove(remove(isbn, "-"), " ")}

\* find({"ISBN": isbn}): the _ids of the matching documents
FindByISBN(bks, isbn) == {i \in DOMAIN bks : bks[i]["ISBN"] = isbn}

\* a collection without the unique index
DuplicateKey_NoIndex(bks, id, isbn) == FALSE

\* create_index("ISBN", unique=True): a write that would give document id the
\* ISBN of another document raises DuplicateKeyError
DuplicateKey(bks, id, isbn) == \E j \in DOMAIN bks \ {id} : bks[j]["ISBN"] = isbn

\* insert_one(doc) under _id n
insert_one(bks, n, doc) == [i \in DOMAIN bks \cup {n} |-> IF i = n THEN doc ELSE bks[i]]

\* {"$set": update_data} applied to one document
SetFields(doc, update_data) ==
    [f \in DOMAIN doc |-> IF f \in DOMAIN update_data THEN update_data[f] ELSE doc[f]]

\* an update whose filter matches every document
update_one_AllDocuments(bks, id, update_data) ==
    [i \in DOMAIN bks |-> SetFields(bks[i], update_data)]

\* update_one({"_id": id}, {"$set": update_data})
update_one(bks, id, update_data) ==
    [i \in DOMAIN bks |-> IF i = id THEN SetFields(bks[i], update_data) ELSE bks[i]]

\* result.matched_count in the place of modified_count
modified_count_Matched(bks, id, update_data) == IF id \in DOMAIN bks THEN 1 ELSE 0

\* result.modified_count of update_one: 1 when a document matched and changed
modified_count(bks, id, update_data) ==
    IF id \in DOMAIN bks /\ update_one(bks, id, update_data) # bks THEN 1 ELSE 0

\* a delete whose filter matches every document
delete_one_AllDocuments(bks, id) == [i \in {} |-> bks[i]]

\* delete_one({"_id": id})
delete_one(bks, id) == [i \in DOMAIN bks \ {id} |-> bks[i]]

(***************************************************************************)
(* Responses.                                                              *)
(***************************************************************************)
NoBody == <<>>
NoResp == [status |-> 0, detail |-> "", body |-> NoBody]

HTTPException(status_code, detail) ==
    [status |-> status_code, detail |-> detail, body |-> NoBody]

\* a request body that fails pydantic validation never reaches the handler
RequestValidationError == HTTPException(422, "validation error")

\* BookResponse(**book) after book["id"] = str(book["_id"]); del book["_id"]
BookResponse(id, doc) ==
    [f \in Fields \cup {"id"} |-> IF f = "id" THEN str(id) ELSE Normalize(f, doc[f])]

OK(code, body) == [status |-> code, detail |-> "", body |-> body]

\* lines 50-54, 67-73, 113-117: read the document back and shape the response;
\* a missing document (None) or a document BookResponse rejects raises, and the
\* handler's except clause turns that into 500
ReadBack(bks, id, code, what) ==
    IF id \notin DOMAIN bks THEN HTTPException(500, what)
    ELSE IF ~BookBaseOK(bks[id]) THEN HTTPException(500, what)
    ELSE OK(code, BookResponse(id, bks[id]))

\* the response get_book gives for book_id on collection bks
get_book(bks, book_id) ==
    IF ~is_valid(book_id) THEN HTTPException(400, "Invalid book ID format")
    ELSE IF ObjectId(book_id) \notin DOMAIN bks THEN HTTPException(404, "Book not found")
    ELSE ReadBack(bks, ObjectId(book_id), 200, "Error retrieving book")

(***************************************************************************)
(* Aggregations.                                                           *)
(***************************************************************************)
\* count_documents({})
count_documents(bks) == Cardinality(DOMAIN bks)

\* {"$group": {"_id": "$genre", "count": {"$sum": 1}}}: one item per genre value
\* (None for a null genre), as <<_id, count>>
GroupByGenre(bks) ==
    {<<g, Cardinality({i \in DOMAIN bks : bks[i]["genre"] = g})>> :
        g \in {bks[i]["genre"] : i \in DOMAIN bks}}

\* {"$sort": {"count": -1}}: every order of the items with counts descending
\* (the order of items with equal counts is the store's choice)
SortByCountDesc(items) ==
    {s \in [1..Cardinality(items) -> items] :
        /\ \A i, j \in DOMAIN s : i # j => s[i] # s[j]
        /\ \A i, j \in DOMAIN s : i < j => s[i][2] >= s[j][2]}

Unknown == <<"U", "n", "k", "n", "o", "w", "n">>

\* result[key] = value on a Python dict kept as its sequence of <<key, value>>
\* in insertion order: an existing key keeps its place and takes the new value
DictSet(d, key, value) ==
    IF \E i \in DOMAIN d : d[i][1] = key
    THEN [i \in DOMAIN d |-> IF d[i][1] = key THEN <<key, value>> ELSE d[i]]
    ELSE Append(d, <<key, value>>)

\* lines 248-251: the loop that formats the response
RECURSIVE FormatGenreCounts(_, _)
FormatGenreCounts(genre_counts, result) ==
    IF genre_counts = <<>> THEN result
    ELSE LET item == Head(genre_counts)
             genre == IF item[1] # None /\ item[1] # <<>> THEN item[1] ELSE Unknown
         IN  FormatGenreCounts(Tail(genre_counts), DictSet(result, genre, item[2]))

(***************************************************************************)
(* Requests the model issues.                                              *)
(***************************************************************************)
Isbn10 == <<"0", "3", "0", "6", "4", "0", "6", "1", "5", "2">>
Isbn10Hyphens == <<"0", "-", "3", "0", "6", "-", "4", "0", "6", "1", "5", "-", "2">>
Fiction == <<"F">>

CreateInputs ==
    { [title |-> <<" ", "a", " ">>, author |-> <<"b">>, ISBN |-> Isbn10,
       genre |-> Fiction, publication_year |-> 2000],
      [title |-> <<"a">>, author |-> <<"b", "\t">>, ISBN |-> Isbn10Hyphens,
       genre |-> Unknown, publication_year |-> 2024],
      [title |-> <<" ", "\t">>, author |-> <<"b">>, ISBN |-> Isbn10Hyphens,
       genre |-> Fiction, publication_year |-> 2000],
      [title |-> <<"a">>, author |-> <<"b">>, ISBN |-> Isbn10,
       genre |-> Fiction, publication_year |-> 2025] }

EmptyPayload == [f \in {} |-> None]

UpdateInputs ==
    { EmptyPayload,
      [title |-> <<" ", "c">>, publication_year |-> 2024],
      [ISBN |-> Isbn10Hyphens],
      [genre |-> None],
      [genre |-> <<" ">>] }

BookIds == {str(n) : n \in 1..MaxBooks} \cup {MalformedId}

(***************************************************************************)
(* The state machine: each request slot serves one request at a time; a    *)
(* handler's store calls are separate steps, its local code runs with the  *)
(* store call that precedes it.                                            *)
(***************************************************************************)
Free(p) == pc[p] \in {"idle", "done"}

\* slot p starts a request: it is alone iff no other request is in flight; the
\* requests already there, finished or not, are no longer alone
StartAlone(p) == [q \in Procs |-> q = p /\ \A r \in Procs \ {p} : Free(r)]

NoReq == [op |-> "none", id |-> MalformedId, payload |-> EmptyPayload]

Init ==
    /\ books = <<>>
    /\ nextId = 1
    /\ pc = [p \in Procs |-> "idle"]
    /\ req = [p \in Procs |-> NoReq]
    /\ loc = [p \in Procs |-> 0]
    /\ resp = [p \in Procs |-> NoResp]
    /\ alone = [p \in Procs |-> FALSE]
    /\ before = [p \in Procs |-> <<>>]
    /\ vIn = <<>>
    /\ vOut = [model |-> "none", ok |-> FALSE, value |-> <<>>]

\* slot p takes value v; a slot whose request is finished has delivered its
\* response by the time another request moves, and is cleared
Slot(arr, p, v, cleared) ==
    [q \in Procs |-> IF q = p THEN v ELSE IF Free(q) THEN cleared ELSE arr[q]]

\* the request is answered
Done(p, r) ==
    /\ pc' = Slot(pc, p, "done", "idle")
    /\ resp' = Slot(resp, p, r, NoResp)

Goto(p, label) ==
    /\ pc' = Slot(pc, p, label, "idle")
    /\ resp' = Slot(resp, p, NoResp, NoResp)

\* slot p takes a new request
Begin(p, op, id, payload) ==
    /\ Free(p)
    /\ req' = Slot(req, p, [op |-> op, id |-> id, payload |-> payload], NoReq)
    /\ loc' = Slot(loc, p, 0, 0)
    /\ alone' = StartAlone(p)
    /\ before' = [q \in Procs |-> IF StartAlone(p)[q] THEN books ELSE <<>>]

\* slot p goes on with its request, its local result now n
Continue(p, n) ==
    /\ req' = Slot(req, p, req[p], NoReq)
    /\ loc' = Slot(loc, p, n, 0)
    /\ alone' = Slot(alone, p, alone[p], FALSE)
    /\ before' = Slot(before, p, before[p], <<>>)

\* create_book, lines 38-44: the payload is validated, then the ISBN pre-check
CreateFind(p, book) ==
    /\ Begin(p, "create", MalformedId, book)
    /\ nextId + Cardinality({q \in Procs : pc[q] = "c_insert"}) <= MaxBooks
    /\ IF ~BookBaseOK(book) THEN Done(p, RequestValidationError)
       ELSE IF FindByISBN(books, dict(book)["ISBN"]) # {}
            THEN Done(p, HTTPException(400, "Book with this ISBN already exists"))
            ELSE Goto(p, "c_insert")
    /\ UNCHANGED <<books, nextId, vIn, vOut>>

\* create_book, lines 46-47: insert_one
CreateInsert(p) ==
    /\ pc[p] = "c_insert"
    /\ LET book_dict == dict(req[p].payload)
       IN  IF DuplicateKey(books, nextId, book_dict["ISBN"])
           THEN /\ Done(p, HTTPException(500, "Error creating book"))
                /\ Continue(p, 0)
                /\ UNCHANGED <<books, nextId>>
           ELSE /\ books' = insert_one(books, nextId, book_dict)
                /\ nextId' = nextId + 1
                /\ Continue(p, nextId)
                /\ Goto(p, "c_read")
    /\ UNCHANGED <<vIn, vOut>>

\* create_book, lines 49-54: find_one by the inserted id, BookResponse
CreateRead(p) ==
    /\ pc[p] = "c_read"
    /\ Done(p, ReadBack(books, loc[p], 201, "Error creating book"))
    /\ Continue(p, loc[p])
    /\ UNCHANGED <<books, nextId, vIn, vOut>>

\* get_book, lines 61-77
GetBook(p, book_id) ==
    /\ Begin(p, "get", book_id, EmptyPayload)
    /\ Done(p, get_book(books, book_id))
    /\ UNCHANGED <<books, nextId, vIn, vOut>>

\* update_book, lines 80-102 without the conflict lookup: the payload is
\* validated, the id checked, the existence lookup made
UpdateFind(p, book_id, book_update) ==
    /\ Begin(p, "update", book_id, book_update)
    /\ LET update_data == dict(book_update)
       IN  IF ~BookUpdateOK(book_update) THEN Done(p, RequestValidationError)
           ELSE IF ~is_valid(book_id)
                THEN Done(p, HTTPException(400, "Invalid book ID format"))
           ELSE IF ObjectId(book_id) \notin DOMAIN books
                THEN Done(p, HTTPException(404, "Book not found"))
           ELSE IF "ISBN" \in DOMAIN update_data THEN Goto(p, "u_conflict")
           ELSE IF DOMAIN update_data = {}
                THEN Done(p, HTTPException(400, "No fields to update"))
           ELSE Goto(p, "u_update")
    /\ UNCHANGED <<books, nextId, vIn, vOut>>

\* update_book, lines 94-102: the ISBN conflict lookup
UpdateConflict(p) ==
    /\ pc[p] = "u_conflict"
    /\ LET update_data == dict(req[p].payload)
           id == ObjectId(req[p].id)
       IN  IF FindByISBN(books, update_data["ISBN"]) \ {id} # {}
           THEN Done(p, HTTPException(400, "Another book with this ISBN already exists"))
           ELSE Goto(p, "u_update")
    /\ Continue(p, 0)
    /\ UNCHANGED <<books, nextId, vIn, vOut>>

\* update_book, lines 104-110: update_one and its modified_count
UpdateWrite(p) ==
    /\ pc[p] = "u_update"
    /\ LET update_data == dict(req[p].payload)
           id == ObjectId(req[p].id)
       IN  IF /\ id \in DOMAIN books
              /\ "ISBN" \in DOMAIN update_data
              /\ DuplicateKey(books, id, update_data["ISBN"])
           THEN /\ Done(p, HTTPException(500, "Error updating book"))
                /\ UNCHANGED books
           ELSE /\ books' = IF id \in DOMAIN books
                            THEN update_one(books, id, update_data) ELSE books
                /\ IF modified_count(books, id, update_data) = 0
                   THEN Done(p, HTTPException(400, "No changes made to the book"))
                   ELSE Goto(p, "u_read")
    /\ Continue(p, 0)
    /\ UNCHANGED <<nextId, vIn, vOut>>

\* update_book, lines 112-117: find_one again, BookResponse
UpdateRead(p) ==
    /\ pc[p] = "u_read"
    /\ Done(p, ReadBack(books, ObjectId(req[p].id), 200, "Error updating book"))
    /\ Continue(p, 0)
    /\ UNCHANGED <<books, nextId, vIn, vOut>>

\* delete_book, lines 124-138
DeleteBook(p, book_id) ==
    /\ Begin(p, "delete", book_id, EmptyPayload)
    /\ IF ~is_valid(book_id)
       THEN /\ Done(p, HTTPException(400, "Invalid book ID format"))
            /\ UNCHANGED books
       ELSE IF ObjectId(book_id) \notin DOMAIN books
       THEN /\ Done(p, HTTPException(404, "Book not found"))
            /\ UNCHANGED books
       ELSE /\ books' = delete_one(books, ObjectId(book_id))
            /\ Done(p, OK(200, [message |-> "Book deleted successfully"]))
    /\ UNCHANGED <<nextId, vIn, vOut>>

\* count_total_books, lines 220-226
CountTotal(p) ==
    /\ Begin(p, "count_total", MalformedId, EmptyPayload)
    /\ Done(p, OK(200, [total_books |-> count_documents(books)]))
    /\ UNCHANGED <<books, nextId, vIn, vOut>>

\* count_books_by_genre, lines 229-255
CountByGenre(p) ==
    /\ Begin(p, "count_by_genre", MalformedId, EmptyPayload)
    /\ \E genre_counts \in SortByCountDesc(GroupByGenre(books)) :
          Done(p, OK(200, [books_per_genre |-> FormatGenreCounts(genre_counts, <<>>)]))
    /\ UNCHANGED <<books, nextId, vIn, vOut>>

Next ==
    \E p \in Procs :
        \/ \E book \in CreateInputs : CreateFind(p, book)
        \/ CreateInsert(p)
        \/ CreateRead(p)
        \/ \E book_id \in BookIds, book_update \in UpdateInputs :
              UpdateFind(p, book_id, book_update)
        \/ UpdateConflict(p)
        \/ UpdateWrite(p)
        \/ UpdateRead(p)
        \/ \E book_id \in BookIds : DeleteBook(p, book_id)
        \/ CountTotal(p)
        \/ CountByGenre(p)
        \/ \E book_id \in BookIds : GetBook(p, book_id)

Spec == Init /\ [][Next]_vars

(***************************************************************************)
(* The ISBN field on its own: one string is validated as BookCreate.ISBN   *)
(* or as BookUpdate.ISBN.                                                  *)
(***************************************************************************)
MaxCoreLen == 14

IsbnDigits == <<"9", "7", "8", "0", "3", "0", "6", "4", "0", "6", "1", "5", "7", "4", "2">>
LastChars == {"2", "X", "x", "a", "-", SuperscriptTwo}

\* candidate ISBNs without separators: digits with a chosen last character, and
\* the same with a letter in an earlier place
IsbnCores ==
    LET plain == {SubSeq(IsbnDigits, 1, n - 1) \o <<c>> : n \in 9..MaxCoreLen, c \in LastChars}
    IN  plain \cup {[s EXCEPT ![1] = "X"] : s \in plain} \cup {[s EXCEPT ![5] = "x"] : s \in plain}

\* s with sep put after every k-th character (k = 0: s itself)
RECURSIVE Separate(_, _, _)
Separate(s, k, sep) ==
    IF k = 0 \/ Len(s) <= k THEN s
    ELSE SubSeq(s, 1, k) \o <<sep>> \o Separate(SubSeq(s, k + 1, Len(s)), k, sep)

IsbnInputs ==
    {Separate(s, k, sep) : s \in IsbnCores, k \in {0, 1, 3, 4}, sep \in {"-", " ", "\t"}}
    \cup {<<" ">> \o s \o <<"-">> : s \in IsbnCores}

InitValidate ==
    /\ books = <<>>
    /\ nextId = 1
    /\ pc = [p \in Procs |-> "idle"]
    /\ req = [p \in Procs |-> NoReq]
    /\ loc = [p \in Procs |-> 0]
    /\ resp = [p \in Procs |-> NoResp]
    /\ alone = [p \in Procs |-> FALSE]
    /\ before = [p \in Procs |-> <<>>]
    /\ vIn \in IsbnInputs
    /\ vOut = [model |-> "none", ok |-> FALSE, value |-> <<>>]

\* BookCreate(ISBN=vIn, ...)
ValidateCreate ==
    /\ vOut.model = "none"
    /\ vOut' = IF BookBase_ISBN_OK(vIn)
               THEN [model |-> "BookCreate", ok |-> TRUE, value |-> validate_isbn(vIn)]
               ELSE [model |-> "BookCreate", ok |-> FALSE, value |-> <<>>]
    /\ UNCHANGED <<books, nextId, pc, req, loc, resp, alone, before, vIn>>

\* BookUpdate(ISBN=vIn)
ValidateUpdate ==
    /\ vOut.model = "none"
    /\ vOut' = IF BookUpdate_ISBN_OK(vIn)
               THEN [model |-> "BookUpdate", ok |-> TRUE, value |-> validate_isbn(vIn)]
               ELSE [model |-> "BookUpdate", ok |-> FALSE, value |-> <<>>]
    /\ UNCHANGED <<books, nextId, pc, req, loc, resp, alone, before, vIn>>

NextValidate == ValidateCreate \/ ValidateUpdate

SpecValidate == InitValidate /\ [][NextValidate]_vars

(***************************************************************************)
(* Properties.                                                             *)
(***************************************************************************)
\* slot p holds the response of a request of kind op that no other request
\* overlapped: before[p] is the collection it started on, books the one it left
Finished(p, op) == pc[p] = "done" /\ alone[p] /\ req[p].op = op

\* the ISBN with its hyphens and spaces taken out
Stripped(v) == SelectSeq(v, LAMBDA c : c # "-" /\ c # " ")

\* C1: in every reachable state, under every interleaving of the handlers'
\* store calls, no two distinct stored books have the same ISBN.
C1_IsbnUnique ==
    \A i, j \in DOMAIN books : i # j => books[i]["ISBN"] # books[j]["ISBN"]

\* a create that passed its pre-check lost the race and was stopped by the index
C1_Witness ==
    \E p \in Procs : /\ pc[p] = "done" /\ req[p].op = "create" /\ ~alone[p]
                     /\ resp[p].status = 500 /\ loc[p] = 0
                     /\ \E i \in DOMAIN books : books[i]["ISBN"] = req[p].payload["ISBN"]

\* C2: a create on its own with a valid book ends in 400 'Book with this ISBN
\* already exists', the collection unchanged, when a stored book has the same
\* raw ISBN string, and succeeds (201) otherwise, also when the ISBN differs
\* from a stored one only in hyphens or spaces.
C2_CreateConflict ==
    \A p \in Procs :
        Finished(p, "create") /\ BookBaseOK(req[p].payload) =>
            IF \E i \in DOMAIN before[p] : before[p][i]["ISBN"] = req[p].payload["ISBN"]
            THEN /\ resp[p].status = 400
                 /\ resp[p].detail = "Book with this ISBN already exists"
                 /\ books = before[p]
            ELSE resp[p].status = 201

C2_Witness ==
    \E p \in Procs : /\ Finished(p, "create") /\ BookBaseOK(req[p].payload)
                     /\ resp[p].status = 400
                     /\ \E i \in DOMAIN before[p] :
                           before[p][i]["ISBN"] = req[p].payload["ISBN"]

\* the other case of C2: the new ISBN differs from a stored one in hyphens only
C2_HyphenVariantCreated ==
    \E p \in Procs : /\ Finished(p, "create") /\ resp[p].status = 201
                     /\ \E i \in DOMAIN before[p] :
                           /\ before[p][i]["ISBN"] # req[p].payload["ISBN"]
                           /\ Stripped(before[p][i]["ISBN"]) = Stripped(req[p].payload["ISBN"])

\* the value the claims expect a payload field to be stored with
Trimmed(f, v) == IF f \in StrFields THEN strip(v) ELSE v

\* C3: after a successful update on its own, a get on the same id returns the
\* book with its id unchanged, the payload's fields at the payload's (trimmed)
\* values and every other field as before; every other book is unchanged.
C3_UpdateFrame ==
    \A p \in Procs :
        Finished(p, "update") /\ resp[p].status = 200 =>
            LET id == ObjectId(req[p].id)
                u == req[p].payload
                got == get_book(books, req[p].id)
            IN  /\ id \in DOMAIN before[p]
                /\ DOMAIN books = DOMAIN before[p]
                /\ \A j \in DOMAIN books \ {id} : books[j] = before[p][j]
                /\ got.status = 200
                /\ got.body["id"] = req[p].id
                /\ \A f \in Fields :
                      got.body[f] = IF f \in DOMAIN u THEN Trimmed(f, u[f])
                                    ELSE before[p][id][f]

\* an update changed a book while another book was stored
C3_Witness ==
    \E p \in Procs : /\ Finished(p, "update") /\ resp[p].status = 200
                     /\ Cardinality(DOMAIN books) = 2
                     /\ "title" \in DOMAIN req[p].payload
                     /\ req[p].payload["title"] # strip(req[p].payload["title"])

\* C4: a create on its own that succeeds returns the book with title, author
\* and genre trimmed, the ISBN as given and the year as given, and a get on
\* the returned id issued next returns the same book.
C4_CreateRoundTrip ==
    \A p \in Procs :
        Finished(p, "create") /\ resp[p].status = 201 =>
            LET b == req[p].payload
                got == get_book(books, resp[p].body["id"])
            IN  /\ \A f \in Fields : resp[p].body[f] = Trimmed(f, b[f])
                /\ got.status = 200
                /\ got.body = resp[p].body
                /\ ObjectId(resp[p].body["id"]) \notin DOMAIN before[p]

\* the created book had a title to trim and an ISBN with hyphens
C4_Witness ==
    \E p \in Procs :
        /\ Finished(p, "create") /\ resp[p].status = 201
        /\ \E f \in StrFields : req[p].payload[f] # strip(req[p].payload[f])
        /\ Len(req[p].payload["ISBN"]) > Len(Stripped(req[p].payload["ISBN"]))

\* C5: an update on its own of an existing book with a valid payload that sets
\* no field, or only fields that already have the payload's value, ends in 400
\* and leaves the collection unchanged.
C5_NoOpUpdate ==
    \A p \in Procs :
        LET id == ObjectId(req[p].id)
            u == req[p].payload
        IN  /\ Finished(p, "update")
            /\ BookUpdateOK(u)
            /\ is_valid(req[p].id)
            /\ id \in DOMAIN before[p]
            /\ \A f \in DOMAIN u : before[p][id][f] = Trimmed(f, u[f])
            => /\ resp[p].status = 400
               /\ books = before[p]

\* the payload set fields, all to the values they had
C5_Witness ==
    \E p \in Procs : /\ Finished(p, "update")
                     /\ DOMAIN req[p].payload # {}
                     /\ resp[p].detail = "No changes made to the book"
                     /\ ObjectId(req[p].id) \in DOMAIN before[p]

\* C6: a delete on its own with a well-formed id of no stored book ends in 404
\* and changes nothing (so a repeated delete does the same); with the id of a
\* stored book it removes that book and no other, and a get or delete on that
\* id then finds nothing (404).
C6_Delete ==
    \A p \in Procs :
        Finished(p, "delete") /\ is_valid(req[p].id) =>
            LET id == ObjectId(req[p].id)
            IN  IF id \notin DOMAIN before[p]
                THEN resp[p].status = 404 /\ books = before[p]
                ELSE /\ resp[p].status = 200
                     /\ DOMAIN books = DOMAIN before[p] \ {id}
                     /\ \A j \in DOMAIN books : books[j] = before[p][j]
                     /\ get_book(books, req[p].id).status = 404

\* a stored book was deleted and another one stayed
C6_Witness ==
    \E p \in Procs : /\ Finished(p, "delete") /\ resp[p].status = 200
                     /\ DOMAIN books # {}

\* the other case of C6: a delete of a book that was deleted before
C6_DeletedTwice ==
    \E p \in Procs : /\ Finished(p, "delete") /\ resp[p].status = 404
                     /\ ObjectId(req[p].id) < nextId

\* the shape the claim asks of a stripped ISBN (a digit is what isdigit() takes
\* for one)
IsbnShape(t) ==
    \/ /\ Len(t) = 10
       /\ \A i \in 1..9 : IsDigitChar(t[i])
       /\ (IsDigitChar(t[10]) \/ t[10] \in {"X", "x"})
    \/ /\ Len(t) = 13
       /\ \A i \in 1..13 : IsDigitChar(t[i])

\* C7 as stated: ISBN validation on create and on update accepts a string iff
\* its stripped form has the ISBN-10 or ISBN-13 shape, and keeps the string as
\* given.
C7_AsStated ==
    vOut.model # "none" =>
        /\ vOut.ok <=> IsbnShape(Stripped(vIn))
        /\ vOut.ok => vOut.value = vIn

\* C7 amended: ISBN validation on create and on update accepts a string iff
\* the string as given has 10 to 17 characters and its stripped form has the
\* ISBN-10 or ISBN-13 shape, and keeps the string as given.
C7_Amended ==
    vOut.model # "none" =>
        /\ vOut.ok <=> (Len(vIn) >= 10 /\ Len(vIn) <= 17 /\ IsbnShape(Stripped(vIn)))
        /\ vOut.ok => vOut.value = vIn

\* an ISBN-10 ending in X, written with separators, was accepted as given
C7_Witness ==
    /\ vOut.model = "BookUpdate" /\ vOut.ok
    /\ Len(vIn) > Len(Stripped(vIn))
    /\ Len(Stripped(vIn)) = 10
    /\ Stripped(vIn)[10] = "X"

\* C8: every stored book's title, author and genre is a non-empty string that
\* is not whitespace-only and equals its own trimmed form.
C8_StoredStrings ==
    \A i \in DOMAIN books : \A f \in StrFields :
        /\ books[i][f] # None
        /\ books[i][f] # <<>>
        /\ strip(books[i][f]) = books[i][f]

RECURSIVE SumCounts(_)
SumCounts(d) == IF d = <<>> THEN 0 ELSE Head(d)[2] + SumCounts(Tail(d))

\* C9: count_books_by_genre maps each genre held by a book to the number of
\* books with that genre and "Unknown" to the number of books without a
\* genre, in descending order of count, and the counts sum to the total.
C9_GenreCounts ==
    \A p \in Procs :
        Finished(p, "count_by_genre") =>
            LET d == resp[p].body.books_per_genre
                n(g) == Cardinality({i \in DOMAIN books : books[i]["genre"] = g})
                value(k) == d[CHOOSE i \in DOMAIN d : d[i][1] = k][2]
                has(k) == \E i \in DOMAIN d : d[i][1] = k
            IN  /\ \A i \in DOMAIN books :
                      LET g == books[i]["genre"]
                      IN  IF g = None THEN has(Unknown) /\ value(Unknown) = n(None)
                          ELSE has(g) /\ value(g) = n(g)
                /\ \A i, j \in DOMAIN d : i < j => d[i][2] >= d[j][2]
                /\ SumCounts(d) = count_documents(books)

\* C10: an update with a well-formed id and a valid payload whose target is
\* gone from the collection when it answers, a delete of the same id having
\* come between its store steps, ends neither in an internal error (500) nor
\* in 'No changes made to the book'.
C10_UpdateOfDeleted ==
    \A p \in Procs :
        /\ pc[p] = "done" /\ req[p].op = "update"
        /\ is_valid(req[p].id) /\ BookUpdateOK(req[p].payload)
        /\ ObjectId(req[p].id) \notin DOMAIN books
        => /\ resp[p].status # 500
           /\ resp[p].detail # "No changes made to the book"

====
